---- MODULE Spec2Model ----
(***************************************************************************)
(* Memory pool of src/Memory/mempool.c: one arena obtained from malloc,    *)
(* block headers embedded in it, bump allocation at manager.top and a      *)
(* coalescing pfree.                                                       *)
(*                                                                         *)
(* Addresses and size_t values are integers.  size_t and uintptr_t are 64  *)
(* bit unsigned types; a value v >= 2^63 is written as the integer         *)
(* v - 2^64 (SIZE_MAX is -1), so that +, - and * on the integers agree     *)
(* with the wrapping arithmetic of the code and only the comparisons need  *)
(* an unsigned reading (ULe, ULt).                                         *)
(*                                                                         *)
(* The headers that the code keeps inside the arena are the function       *)
(* blocks: address of a header |-> its fields.  Its domain is the set of   *)
(* addresses at which a header has been written since mempool_init.        *)
(***************************************************************************)
EXTENDS Integers, Sequences, FiniteSets, TLC

\* ---------------------------------------------------------------- constants
SIZEOF_BLOCK == 32
ALIGN == 7
NULL == 0
SIZE_MAX == -1

\* address that malloc hands out for the arena (16-byte aligned)
HeapBase == 16

\* ------------------------------------------------------------------- bounds
MaxCapacity == 176
MaxRequest == 16

\* arguments the caller passes
Capacities == {0, 128, MaxCapacity}
Requests == {0, 1, MaxRequest, SIZE_MAX}
CallocCounts == {0, 1, SIZE_MAX}
CallocSizes == {0, MaxRequest}
PreallocSizes == {0, MaxRequest}

\* -------------------------------------------------------------------- state
VARIABLES
    manager,    \* the static struct manager
    blocks,     \* struct block headers living in the arena, by address
    capacity,   \* byte size of the buffer manager.pool points to
    live,       \* pointers handed to the caller and not yet passed to pfree
    huge,       \* a request of 2^63 bytes or more was served since init
    heap,       \* buffers obtained from malloc and not yet passed to free
    fault,      \* the process was stopped by a memory fault
    last        \* the last call: its name, arguments and return value

vars == <<manager, blocks, capacity, live, huge, heap, fault, last>>

Call(op, args, ret) == [op |-> op, args |-> args, ret |-> ret]

\* the doubly linked list of list.c, a program of its own: two lists A and
\* B of one client
VARIABLES
    lists,      \* struct list, by name: made, destroy, head, tail, size
    nodes,      \* struct list_node objects on the heap, by address
    destroyed,  \* data that were passed to the destroy callback
    stopped,    \* the process ended in a failed assert or a memory fault
    lcall       \* the last list call: its name, arguments and return value

lvars == <<lists, nodes, destroyed, stopped, lcall>>

ListIds == {"A", "B"}

NoList ==
    [made |-> FALSE, destroy |-> FALSE, head |-> NULL, tail |-> NULL,
     size |-> 0]

NoNodes == [a \in {} |-> 0]

\* no list has been created yet
ListStart ==
    /\ lists = [l \in ListIds |-> NoList]
    /\ nodes = NoNodes
    /\ destroyed = {}
    /\ stopped = FALSE
    /\ lcall = Call("none", <<>>, 0)

NoBlocks == [a \in {} |-> 0]

manager_init ==
    [head |-> NULL, tail |-> NULL, max_free |-> 0, available |-> 0,
     pool |-> NULL, top |-> NULL]

\* ------------------------------------------------------ unsigned arithmetic
ULe(a, b) == IF (a < 0) = (b < 0) THEN a <= b ELSE b < 0

ULt(a, b) == a # b /\ ULe(a, b)

MulSizeT(n, size) == n * size

AlignUp_none(p) == p

\* ((uintptr_t) p + ALIGN) & ALIGN_MASK
AlignUp(p) == ((p + ALIGN) \div (ALIGN + 1)) * (ALIGN + 1)

\* size + ALIGN + SIZEOF_BLOCK <= manager.available
Fits(size, available) == ULe(size + ALIGN + SIZEOF_BLOCK, available)

\* size <= manager.max_free
Repurpose(size, max_free) == ULe(size, max_free)

\* ---------------------------------------------------------------- lifecycle
\* a mempool_init that assigns top and available before it tests the
\* result of malloc
mempool_init_assigns_first(size) ==
    /\ \E buf \in {NULL, HeapBase} :
          IF manager.pool # NULL \/ size = 0
          THEN /\ buf = NULL
               /\ UNCHANGED <<manager, blocks, capacity, live, huge, heap>>
               /\ last' = Call("mempool_init", <<size>>, 0)
          ELSE IF buf = NULL
          THEN /\ manager' = [manager EXCEPT !.pool = buf, !.top = buf,
                                             !.available = size]
               /\ UNCHANGED <<blocks, capacity, live, huge, heap>>
               /\ last' = Call("mempool_init", <<size>>, 0)
          ELSE /\ manager' = [manager EXCEPT !.pool = buf, !.top = buf,
                                             !.available = size]
               /\ capacity' = size
               /\ heap' = heap \cup {buf}
               /\ UNCHANGED <<blocks, live, huge>>
               /\ last' = Call("mempool_init", <<size>>, 1)

\* a mempool_init that tests only the size, not manager.pool
mempool_init_unguarded(size) ==
    /\ \E buf \in {NULL, HeapBase} :
          IF size = 0
          THEN /\ buf = NULL
               /\ UNCHANGED <<manager, blocks, capacity, live, huge, heap>>
               /\ last' = Call("mempool_init", <<size>>, 0)
          ELSE IF buf = NULL
          THEN /\ UNCHANGED <<manager, blocks, capacity, live, huge, heap>>
               /\ last' = Call("mempool_init", <<size>>, 0)
          ELSE /\ manager' = [manager EXCEPT !.pool = buf, !.top = buf,
                                             !.available = size]
               /\ capacity' = size
               /\ heap' = heap \cup {buf}
               /\ UNCHANGED <<blocks, live, huge>>
               /\ last' = Call("mempool_init", <<size>>, 1)

mempool_init(size) ==
    /\ \E buf \in {NULL, HeapBase} :
          IF manager.pool # NULL \/ size = 0
          THEN /\ buf = NULL
               /\ UNCHANGED <<manager, blocks, capacity, live, huge, heap>>
               /\ last' = Call("mempool_init", <<size>>, 0)
          ELSE IF buf = NULL
          THEN /\ UNCHANGED <<manager, blocks, capacity, live, huge, heap>>
               /\ last' = Call("mempool_init", <<size>>, 0)
          ELSE /\ manager' = [manager EXCEPT !.pool = buf, !.top = buf,
                                             !.available = size]
               /\ capacity' = size
               /\ heap' = heap \cup {buf}
               /\ UNCHANGED <<blocks, live, huge>>
               /\ last' = Call("mempool_init", <<size>>, 1)

\* a mempool_free that does not set manager.pool to NULL
mempool_free_keeps_pool ==
    /\ IF manager.pool = NULL
       THEN UNCHANGED <<manager, blocks, capacity, live, huge, heap>>
       ELSE /\ heap' = heap \ {manager.pool}
            /\ manager' = [manager_init EXCEPT !.pool = manager.pool]
            /\ blocks' = NoBlocks
            /\ capacity' = 0
            /\ live' = {}
            /\ huge' = FALSE
    /\ last' = Call("mempool_free", <<>>, 0)

\* a mempool_free that leaves manager.max_free as it is
mempool_free_keeps_max_free ==
    /\ IF manager.pool = NULL
       THEN UNCHANGED <<manager, blocks, capacity, live, huge, heap>>
       ELSE /\ heap' = heap \ {manager.pool}
            /\ manager' = [manager_init EXCEPT !.max_free = manager.max_free]
            /\ blocks' = NoBlocks
            /\ capacity' = 0
            /\ live' = {}
            /\ huge' = FALSE
    /\ last' = Call("mempool_free", <<>>, 0)

mempool_free ==
    /\ IF manager.pool = NULL
       THEN UNCHANGED <<manager, blocks, capacity, live, huge, heap>>
       ELSE /\ heap' = heap \ {manager.pool}
            /\ manager' = manager_init
            /\ blocks' = NoBlocks
            /\ capacity' = 0
            /\ live' = {}
            /\ huge' = FALSE
    /\ last' = Call("mempool_free", <<>>, 0)

\* ----------------------------------------------------------------- pmalloc
\* writes header fields at address a, keeping what the memory held before
Header(b, a) ==
    IF a \in DOMAIN b THEN b[a]
    ELSE [prev |-> NULL, next |-> NULL, size |-> 0, available |-> FALSE,
          top_gap |-> 0]

Store(b, a, rec) == [x \in DOMAIN b \cup {a} |-> IF x = a THEN rec ELSE b[x]]

insert_node_at_tail(m, b, new) ==
    IF m.head = NULL
    THEN [m |-> [m EXCEPT !.head = new, !.tail = new],
          b |-> [b EXCEPT ![new].prev = NULL, ![new].next = NULL]]
    ELSE LET b1 == [b EXCEPT ![new].prev = m.tail]
             b2 == [b1 EXCEPT ![new].next = NULL]
             b3 == [b2 EXCEPT ![m.tail].next = new]
         IN  [m |-> [m EXCEPT !.tail = new], b |-> b3]

\* a pmalloc that rounds manager.top before it tests the capacity
pmalloc_align_first(m, b, size) ==
    LET ma == [m EXCEPT !.top = AlignUp(m.top)]
    IN  IF size = 0 THEN [ret |-> NULL, m |-> m, b |-> b]
        ELSE IF Repurpose(size, m.max_free) THEN [ret |-> NULL, m |-> m, b |-> b]
        ELSE IF Fits(size, m.available)
        THEN LET new == ma.top
                 delta == new - m.top
                 b1 == Store(b, new, [Header(b, new) EXCEPT !.size = size,
                                         !.available = FALSE, !.top_gap = delta])
                 ins == insert_node_at_tail(ma, b1, new)
                 m1 == [ins.m EXCEPT
                           !.available = @ - (SIZEOF_BLOCK + size + delta),
                           !.top = @ + (SIZEOF_BLOCK + size)]
             IN  [ret |-> new + SIZEOF_BLOCK, m |-> m1, b |-> ins.b]
        ELSE [ret |-> NULL, m |-> ma, b |-> b]

\* a pmalloc that rounds the size up to a multiple of 8 before using it
pmalloc_rounds_size(m, b, size) ==
    LET rounded == AlignUp(size)
    IN  IF size = 0 THEN [ret |-> NULL, m |-> m, b |-> b]
        ELSE IF Repurpose(rounded, m.max_free)
        THEN [ret |-> NULL, m |-> m, b |-> b]
        ELSE IF Fits(rounded, m.available)
        THEN LET old_top == m.top
                 new == AlignUp(m.top)
                 delta == new - old_top
                 b1 == Store(b, new, [Header(b, new) EXCEPT !.size = rounded,
                                         !.available = FALSE, !.top_gap = delta])
                 ins == insert_node_at_tail([m EXCEPT !.top = new], b1, new)
                 m1 == [ins.m EXCEPT
                           !.available = @ - (SIZEOF_BLOCK + rounded + delta),
                           !.top = @ + (SIZEOF_BLOCK + rounded)]
             IN  [ret |-> new + SIZEOF_BLOCK, m |-> m1, b |-> ins.b]
        ELSE [ret |-> NULL, m |-> m, b |-> b]

\* a pmalloc that does not charge the alignment padding to available
pmalloc_ignores_gap(m, b, size) ==
    IF size = 0 THEN [ret |-> NULL, m |-> m, b |-> b]
    ELSE IF Repurpose(size, m.max_free) THEN [ret |-> NULL, m |-> m, b |-> b]
    ELSE IF Fits(size, m.available)
    THEN LET old_top == m.top
             new == AlignUp(m.top)
             delta == new - old_top
             b1 == Store(b, new, [Header(b, new) EXCEPT !.size = size,
                                     !.available = FALSE, !.top_gap = delta])
             ins == insert_node_at_tail([m EXCEPT !.top = new], b1, new)
             m1 == [ins.m EXCEPT
                       !.available = @ - (SIZEOF_BLOCK + size),
                       !.top = @ + (SIZEOF_BLOCK + size)]
         IN  [ret |-> new + SIZEOF_BLOCK, m |-> m1, b |-> ins.b]
    ELSE [ret |-> NULL, m |-> m, b |-> b]

\* a pmalloc without the test against max_free: every request goes to the
\* unclaimed part of the arena
pmalloc_skips_reuse(m, b, size) ==
    IF size = 0 THEN [ret |-> NULL, m |-> m, b |-> b]
    ELSE IF Fits(size, m.available)
    THEN LET old_top == m.top
             new == AlignUp(m.top)
             delta == new - old_top
             b1 == Store(b, new, [Header(b, new) EXCEPT !.size = size,
                                     !.available = FALSE, !.top_gap = delta])
             ins == insert_node_at_tail([m EXCEPT !.top = new], b1, new)
             m1 == [ins.m EXCEPT
                       !.available = @ - (SIZEOF_BLOCK + size + delta),
                       !.top = @ + (SIZEOF_BLOCK + size)]
         IN  [ret |-> new + SIZEOF_BLOCK, m |-> m1, b |-> ins.b]
    ELSE [ret |-> NULL, m |-> m, b |-> b]

pmalloc(m, b, size) ==
    IF size = 0 THEN [ret |-> NULL, m |-> m, b |-> b]
    ELSE IF Repurpose(size, m.max_free) THEN [ret |-> NULL, m |-> m, b |-> b]
    ELSE IF Fits(size, m.available)
    THEN LET old_top == m.top
             new == AlignUp(m.top)
             delta == new - old_top
             b1 == Store(b, new, [Header(b, new) EXCEPT !.size = size,
                                     !.available = FALSE, !.top_gap = delta])
             ins == insert_node_at_tail([m EXCEPT !.top = new], b1, new)
             m1 == [ins.m EXCEPT
                       !.available = @ - (SIZEOF_BLOCK + size + delta),
                       !.top = @ + (SIZEOF_BLOCK + size)]
         IN  [ret |-> new + SIZEOF_BLOCK, m |-> m1, b |-> ins.b]
    ELSE [ret |-> NULL, m |-> m, b |-> b]

\* memset(address, 0, len) on the payload of a block: the bytes written.  A
\* length of 2^63 or more (written negative) leaves every mapped page and
\* stops the process.
memset_faults(len) == len < 0

memset_range(address, len) == address .. (address + len - 1)

pcalloc(m, b, n, size) ==
    LET r == pmalloc(m, b, MulSizeT(n, size))
    IN  IF r.ret = NULL
        THEN [ret |-> NULL, m |-> r.m, b |-> r.b, fault |-> FALSE]
        ELSE [ret |-> r.ret, m |-> r.m, b |-> r.b,
              fault |-> memset_faults(MulSizeT(n, size))]

\* -------------------------------------------------------------------- pfree
\* if (manager.max_free < block->size) manager.max_free = block->size;
notify_manager_overwrite(m, size) == [m EXCEPT !.max_free = size]

notify_manager(m, size) ==
    IF ULt(m.max_free, size) THEN [m EXCEPT !.max_free = size] ELSE m

RECURSIVE forward_merge(_, _, _, _)
RECURSIVE backward_merge(_, _, _, _)

\* the body entered at the label forward_merge, followed by the
\* MEMPOOL_BACKWARD_MERGE test; fuel bounds the number of jumps
forward_merge(m, b, block, fuel) ==
    LET next_block == b[block].next
        b1 == [b EXCEPT ![block].size =
                  @ + b[next_block].size + b[next_block].top_gap + SIZEOF_BLOCK]
        linked == b1[next_block].next # NULL
        \* next_block has a successor: splice it to block, take its top gap
        c1 == [b1 EXCEPT ![block].next = b1[next_block].next]
        c2 == [c1 EXCEPT ![c1[next_block].next].prev = block]
        c3 == [c2 EXCEPT ![c2[block].next].top_gap = 0]
        \* next_block is the last block: infer the gap, move manager.top
        t1 == [b1 EXCEPT ![block].next = NULL]
        next_next_gap ==
              IF linked THEN c2[c2[block].next].top_gap
              ELSE ALIGN + 1 - (t1[block].size % (ALIGN + 1))
        m1 == IF linked THEN m ELSE [m EXCEPT !.top = @ + next_next_gap]
        b2 == IF linked THEN c3 ELSE t1
        b3 == [b2 EXCEPT ![block].size = @ + next_next_gap]
        b4 == [b3 EXCEPT ![next_block] =
                  [prev |-> NULL, next |-> NULL, size |-> 0,
                   available |-> FALSE, top_gap |-> 0]]
    IN  backward_merge(m1, b4, block, fuel)

\* a backward merge that does not test whether the predecessor is free
backward_merge_any(m, b, block, fuel) ==
    IF fuel > 0 /\ b[block].prev # NULL
    THEN forward_merge(m, b, b[block].prev, fuel - 1)
    ELSE [m |-> notify_manager(m, b[block].size),
          b |-> b,
          done |-> ~ (b[block].prev # NULL)]

\* a pfree without the backward merge
backward_merge_none(m, b, block, fuel) ==
    [m |-> notify_manager(m, b[block].size), b |-> b, done |-> TRUE]

backward_merge(m, b, block, fuel) ==
    IF fuel > 0 /\ b[block].prev # NULL /\ b[b[block].prev].available
    THEN forward_merge(m, b, b[block].prev, fuel - 1)
    ELSE [m |-> notify_manager(m, b[block].size),
          b |-> b,
          done |-> ~ (b[block].prev # NULL /\ b[b[block].prev].available)]

\* a pfree without the NULL test: the header is taken SIZEOF_BLOCK bytes
\* below whatever pointer is passed
pfree_unchecked(m, b, ptr) ==
    LET block == ptr - SIZEOF_BLOCK
        b1 == Store(b, block, [Header(b, block) EXCEPT !.available = TRUE])
    IN  IF b1[block].next # NULL /\ b1[b1[block].next].available
        THEN forward_merge(m, b1, block, Cardinality(DOMAIN b))
        ELSE backward_merge(m, b1, block, Cardinality(DOMAIN b))

pfree(m, b, ptr) ==
    IF ptr = NULL THEN [m |-> m, b |-> b, done |-> TRUE]
    ELSE LET block == ptr - SIZEOF_BLOCK
             b1 == [b EXCEPT ![block].available = TRUE]
         IN  IF b1[block].next # NULL /\ b1[b1[block].next].available
             THEN forward_merge(m, b1, block, Cardinality(DOMAIN b))
             ELSE backward_merge(m, b1, block, Cardinality(DOMAIN b))

\* ----------------------------------------------------------------- prealloc
\* prealloc is declared in mempool.h and has no body in mempool.c; it is
\* modelled from the contract of resize: a NULL pointer reduces to pmalloc,
\* a size of 0 reduces to pfree, the size is then rounded up to a multiple
\* of 8; an equal size changes nothing, a larger one allocates a new
\* block, copies, and frees the old block, or fails and leaves the old
\* block as it is.  freed tells whether ptr was passed to pfree.
prealloc_grows(b, ptr, size) ==
    ULt(b[ptr - SIZEOF_BLOCK].size, AlignUp(size))

\* the calls modelled here: all but those that shrink a block in place
prealloc_modelled(b, ptr, size) ==
    IF ptr = NULL \/ size = 0 THEN TRUE
    ELSE ~ ULt(AlignUp(size), b[ptr - SIZEOF_BLOCK].size)

\* a prealloc that ignores a size of 0
prealloc_keeps_on_zero(m, b, ptr, size) ==
    IF ptr = NULL
    THEN LET r == pmalloc(m, b, size)
         IN  [ret |-> r.ret, m |-> r.m, b |-> r.b, freed |-> FALSE]
    ELSE IF size = 0 \/ ~ prealloc_grows(b, ptr, size)
    THEN [ret |-> ptr, m |-> m, b |-> b, freed |-> FALSE]
    ELSE LET r == pmalloc(m, b, AlignUp(size))
             f == pfree(r.m, r.b, ptr)
         IN  IF r.ret = NULL
             THEN [ret |-> NULL, m |-> r.m, b |-> r.b, freed |-> FALSE]
             ELSE [ret |-> r.ret, m |-> f.m, b |-> f.b, freed |-> TRUE]

\* a prealloc that frees the old block before it allocates the new one
prealloc_frees_first(m, b, ptr, size) ==
    IF ptr = NULL
    THEN LET r == pmalloc(m, b, size)
         IN  [ret |-> r.ret, m |-> r.m, b |-> r.b, freed |-> FALSE]
    ELSE IF size = 0
    THEN LET f == pfree(m, b, ptr)
         IN  [ret |-> NULL, m |-> f.m, b |-> f.b, freed |-> TRUE]
    ELSE IF ~ prealloc_grows(b, ptr, size)
    THEN [ret |-> ptr, m |-> m, b |-> b, freed |-> FALSE]
    ELSE LET f == pfree(m, b, ptr)
             r == pmalloc(f.m, f.b, AlignUp(size))
         IN  [ret |-> r.ret, m |-> r.m, b |-> r.b, freed |-> TRUE]

prealloc(m, b, ptr, size) ==
    IF ptr = NULL
    THEN LET r == pmalloc(m, b, size)
         IN  [ret |-> r.ret, m |-> r.m, b |-> r.b, freed |-> FALSE]
    ELSE IF size = 0
    THEN LET f == pfree(m, b, ptr)
         IN  [ret |-> NULL, m |-> f.m, b |-> f.b, freed |-> TRUE]
    ELSE IF ~ prealloc_grows(b, ptr, size)
    THEN [ret |-> ptr, m |-> m, b |-> b, freed |-> FALSE]
    ELSE LET r == pmalloc(m, b, AlignUp(size))
             f == pfree(r.m, r.b, ptr)
         IN  IF r.ret = NULL
             THEN [ret |-> NULL, m |-> r.m, b |-> r.b, freed |-> FALSE]
             ELSE [ret |-> r.ret, m |-> f.m, b |-> f.b, freed |-> TRUE]

\* ------------------------------------------------------------------ actions
Init ==
    /\ manager = manager_init
    /\ blocks = NoBlocks
    /\ capacity = 0
    /\ live = {}
    /\ huge = FALSE
    /\ heap = {}
    /\ fault = FALSE
    /\ last = Call("none", <<>>, 0)
    /\ ListStart

\* sizes a caller asks for: fixed requests, the size of a block that is
\* free, and one byte more than max_free
FreeSizes == {blocks[a].size : a \in {x \in DOMAIN blocks : blocks[x].available}}

RequestSizes == Requests \cup FreeSizes \cup {manager.max_free + 1}

DoInit ==
    /\ UNCHANGED lvars
    /\ ~ fault
    /\ \E size \in Capacities : mempool_init(size)
    /\ UNCHANGED fault

DoTeardown ==
    /\ UNCHANGED lvars
    /\ ~ fault
    /\ mempool_free
    /\ UNCHANGED fault

DoPmalloc ==
    /\ UNCHANGED lvars
    /\ ~ fault
    /\ manager.pool # NULL
    /\ \E size \in RequestSizes :
          LET r == pmalloc(manager, blocks, size)
          IN  /\ manager' = r.m
              /\ blocks' = r.b
              /\ live' = IF r.ret = NULL THEN live ELSE live \cup {r.ret}
              /\ huge' = (huge \/ (r.ret # NULL /\ size < 0))
              /\ last' = Call("pmalloc", <<size>>, r.ret)
    /\ UNCHANGED <<capacity, heap, fault>>

\* a call stopped inside memset returns nothing: it is recorded as
\* pcalloc_fault with the address pmalloc gave
DoPcalloc ==
    /\ UNCHANGED lvars
    /\ ~ fault
    /\ manager.pool # NULL
    /\ \E n \in CallocCounts, size \in CallocSizes :
          LET r == pcalloc(manager, blocks, n, size)
          IN  /\ manager' = r.m
              /\ blocks' = r.b
              /\ live' = IF r.ret = NULL \/ r.fault THEN live
                         ELSE live \cup {r.ret}
              /\ huge' = (huge \/ (r.ret # NULL /\ MulSizeT(n, size) < 0))
              /\ fault' = r.fault
              /\ last' = Call(IF r.fault THEN "pcalloc_fault" ELSE "pcalloc",
                              <<n, size>>, r.ret)
    /\ UNCHANGED <<capacity, heap>>

DoPfree ==
    /\ UNCHANGED lvars
    /\ ~ fault
    /\ manager.pool # NULL
    /\ \E ptr \in live \cup {NULL} :
          LET r == pfree(manager, blocks, ptr)
          IN  /\ manager' = r.m
              /\ blocks' = r.b
              /\ live' = live \ {ptr}
              /\ last' = Call("pfree", <<ptr>>, 0)
    /\ UNCHANGED <<capacity, huge, heap, fault>>

\* after prealloc(ptr, 0) the value handed back is left open by the
\* contract: NULL or the pointer that was just freed
DoPrealloc ==
    /\ UNCHANGED lvars
    /\ ~ fault
    /\ manager.pool # NULL
    /\ \E ptr \in live \cup {NULL}, size \in PreallocSizes :
          /\ prealloc_modelled(blocks, ptr, size)
          /\ LET r == prealloc(manager, blocks, ptr, size)
             IN  /\ manager' = r.m
                 /\ blocks' = r.b
                 /\ live' = (IF r.freed THEN live \ {ptr} ELSE live)
                               \cup ({r.ret} \ {NULL})
                 /\ \E ret \in {r.ret} \cup (IF r.freed /\ size = 0
                                              THEN {ptr} ELSE {}) :
                       last' = Call("prealloc", <<ptr, size>>, ret)
    /\ UNCHANGED <<capacity, huge, heap, fault>>

Next ==
    DoInit \/ DoTeardown \/ DoPmalloc \/ DoPcalloc \/ DoPfree \/ DoPrealloc

Spec == Init /\ [][Next]_vars

\* the pool driven only by the operations that have a body in mempool.c
CodeNext == DoInit \/ DoTeardown \/ DoPmalloc \/ DoPcalloc \/ DoPfree

CodeSpec == Init /\ [][CodeNext]_vars

\* -------------------------------------------------------------------- list
\* list.c: a doubly linked list. Its state is passed to the functions as a
\* record s of the lists, the nodes and the data given to destroy; a result
\* holds the state after the call, the return value and ok, which is FALSE
\* when the call ended the process (a failed assert, a null dereference).

\* the most nodes the heap serves at one time
MaxNodes == 3

NodeAddrs == 1 .. MaxNodes

\* data are pointers to objects of the client, never to list nodes
ListData == {NULL, MaxNodes + 1}

LState == [lists |-> lists, nodes |-> nodes, destroyed |-> destroyed]

Ret(s, ret) == [s |-> s, ret |-> ret, ok |-> TRUE]

Stop(s) == [s |-> s, ret |-> NULL, ok |-> FALSE]

\* malloc of a node: a free address, NULL when none is left
malloc_node(ns) ==
    IF NodeAddrs \ DOMAIN ns = {} THEN NULL
    ELSE CHOOSE a \in NodeAddrs \ DOMAIN ns :
             \A x \in NodeAddrs \ DOMAIN ns : a <= x

NodeStore(ns, a, rec) ==
    [x \in DOMAIN ns \cup {a} |-> IF x = a THEN rec ELSE ns[x]]

NodeFree(ns, a) == [x \in DOMAIN ns \ {a} |-> ns[x]]

\* curr = curr->f, n times over; NULL once the walk leaves the nodes
RECURSIVE Hop(_, _, _, _)
Hop(ns, curr, f, n) ==
    IF n <= 0 THEN curr
    ELSE IF curr \notin DOMAIN ns THEN NULL
    ELSE Hop(ns, ns[curr][f], f, n - 1)

\* the nodes of a list from its head, in order
RECURSIVE NodesFrom(_, _, _)
NodesFrom(ns, curr, fuel) ==
    IF curr \notin DOMAIN ns \/ fuel = 0 THEN <<>>
    ELSE <<curr>> \o NodesFrom(ns, ns[curr].next, fuel - 1)

NodesOf(s, l) == NodesFrom(s.nodes, s.lists[l].head, MaxNodes)

DataOf(s, l) == [i \in DOMAIN NodesOf(s, l) |-> s.nodes[NodesOf(s, l)[i]].data]

Range(seq) == {seq[i] : i \in DOMAIN seq}

list_create(s, l, destroy, served) ==
    IF ~ served THEN Ret(s, NULL)
    ELSE Ret([s EXCEPT !.lists[l] =
                  [made |-> TRUE, destroy |-> destroy, head |-> NULL,
                   tail |-> NULL, size |-> 0]], l)

list_insert_pos(s, l, pos, data, new_node) ==
    LET list == s.lists[l]
        ns == s.nodes
        curr == Hop(ns, ns[list.head].next, "next", pos - 1)
    IN  IF ~ (pos <= list.size /\ pos >= 0) THEN Stop(s)
        ELSE IF new_node = NULL THEN Ret(s, NULL)
        ELSE IF list.size = 0 THEN
            Ret([s EXCEPT
                    !.nodes = NodeStore(ns, new_node,
                        [prev |-> NULL, next |-> NULL, data |-> data]),
                    !.lists[l].head = new_node,
                    !.lists[l].tail = new_node,
                    !.lists[l].size = list.size + 1], new_node)
        ELSE IF pos = 0 THEN
            Ret([s EXCEPT
                    !.nodes = NodeStore(
                        [ns EXCEPT ![list.head].prev = new_node], new_node,
                        [prev |-> NULL, next |-> list.head, data |-> data]),
                    !.lists[l].head = new_node,
                    !.lists[l].size = list.size + 1], new_node)
        ELSE IF pos = list.size THEN
            Ret([s EXCEPT
                    !.nodes = NodeStore(
                        [ns EXCEPT ![list.tail].next = new_node], new_node,
                        [prev |-> list.tail, next |-> NULL, data |-> data]),
                    !.lists[l].tail = new_node,
                    !.lists[l].size = list.size + 1], new_node)
        ELSE IF curr \notin DOMAIN ns THEN Stop(s)
        ELSE
            Ret([s EXCEPT
                    !.nodes = NodeStore(
                        [ns EXCEPT ![ns[curr].prev].next = new_node,
                                   ![curr].prev = new_node], new_node,
                        [prev |-> ns[curr].prev, next |-> curr,
                         data |-> data]),
                    !.lists[l].size = list.size + 1], new_node)

list_remove_pos(s, l, pos) ==
    LET list == s.lists[l]
        ns == s.nodes
        curr == Hop(ns, ns[list.head].next, "next", pos - 1)
        removed_node ==
            IF pos = 0 THEN list.head
            ELSE IF pos = list.size - 1 THEN list.tail
            ELSE curr
        new_head == ns[list.head].next
        new_tail == ns[list.tail].prev
        unlinked ==
            IF pos = 0 THEN
                [s EXCEPT
                    !.nodes = IF new_head = NULL THEN ns
                              ELSE [ns EXCEPT ![new_head].prev = NULL],
                    !.lists[l].head = new_head,
                    !.lists[l].tail =
                        IF new_head = NULL THEN NULL ELSE list.tail]
            ELSE IF pos = list.size - 1 THEN
                [s EXCEPT
                    !.nodes = IF new_tail = NULL THEN ns
                              ELSE [ns EXCEPT ![new_tail].next = NULL],
                    !.lists[l].tail = new_tail,
                    !.lists[l].head =
                        IF new_tail = NULL THEN NULL ELSE list.head]
            ELSE
                [s EXCEPT
                    !.nodes = [ns EXCEPT ![ns[curr].next].prev = ns[curr].prev,
                                         ![ns[curr].prev].next = ns[curr].next]]
    IN  IF ~ (pos < list.size /\ pos >= 0) THEN Stop(s)
        ELSE IF removed_node \notin DOMAIN ns THEN Stop(s)
        ELSE
            Ret([unlinked EXCEPT
                    !.nodes = NodeFree(unlinked.nodes, removed_node),
                    !.lists[l].size = list.size - 1],
                ns[removed_node].data)

list_access_pos(s, l, pos) ==
    LET list == s.lists[l]
        ns == s.nodes
        curr ==
            IF pos >= 1 THEN Hop(ns, ns[list.head].next, "next", pos - 1)
            ELSE Hop(ns, ns[list.tail].prev, "prev", (-1) - pos)
    IN  IF ~ (pos < list.size /\ pos >= (-1) * list.size) THEN Stop(s)
        ELSE IF pos = 0 \/ pos = (-1) * list.size THEN
            Ret(s, ns[list.head].data)
        ELSE IF pos = -1 \/ pos = list.size - 1 THEN
            Ret(s, ns[list.tail].data)
        ELSE IF curr \notin DOMAIN ns THEN Stop(s)
        ELSE Ret(s, ns[curr].data)

\* the macros of the header: the head is position 0, the tail position
\* size - 1 (size on a push)
list_pop_head(s, l) == list_remove_pos(s, l, 0)

list_push_tail(s, l, data, new_node) ==
    list_insert_pos(s, l, s.lists[l].size, data, new_node)

list_pop_tail(s, l) == list_remove_pos(s, l, s.lists[l].size - 1)

list_peek_tail(s, l) == list_access_pos(s, l, s.lists[l].size - 1)

\* (*list->destroy)(data), when the list has a destroy function
Destroy(s, l, data) ==
    IF s.lists[l].destroy
    THEN [s EXCEPT !.destroyed = s.destroyed \cup {data}]
    ELSE s

RECURSIVE list_destroy(_, _)
list_destroy(s, l) ==
    IF s.lists[l].head = NULL THEN Ret([s EXCEPT !.lists[l] = NoList], NULL)
    ELSE LET pop == list_pop_head(s, l)
         IN  IF ~ pop.ok THEN Stop(pop.s)
             ELSE list_destroy(Destroy(pop.s, l, pop.ret), l)

list_remove_node(s, l, node, method) ==
    LET list == s.lists[l]
        ns == s.nodes
        del_node ==
            CASE method = 0 -> node
              [] method = 1 -> list.tail
              [] method = 2 -> list.head
        new_head == ns[list.head].next
        new_tail == ns[list.tail].prev
        \* node->next->prev = node->prev, the first store of case 0
        first_store == [ns EXCEPT ![ns[node].next].prev = ns[node].prev]
        unlinked ==
            CASE method = 0 ->
                   [s EXCEPT !.nodes =
                       [first_store EXCEPT ![ns[node].prev].next =
                                               ns[node].next]]
              [] method = 1 ->
                   [s EXCEPT
                       !.nodes = IF new_tail = NULL THEN ns
                                 ELSE [ns EXCEPT ![new_tail].next = NULL],
                       !.lists[l].tail = new_tail,
                       !.lists[l].head =
                           IF new_tail = NULL THEN NULL ELSE list.head]
              [] method = 2 ->
                   [s EXCEPT
                       !.nodes = IF new_head = NULL THEN ns
                                 ELSE [ns EXCEPT ![new_head].prev = NULL],
                       !.lists[l].head = new_head,
                       !.lists[l].tail =
                           IF new_head = NULL THEN NULL ELSE list.tail]
    IN  IF ~ (method \in {0, 1, 2}) \/ (method = 0 /\ node = NULL)
        THEN Stop(s)
        ELSE IF del_node \notin DOMAIN ns THEN Stop(s)
        ELSE IF method = 0 /\ ns[node].next = NULL THEN Stop(s)
        ELSE IF method = 0 /\ ns[node].prev = NULL
        THEN Stop([s EXCEPT !.nodes = first_store])
        ELSE
            Ret([unlinked EXCEPT
                    !.nodes = NodeFree(unlinked.nodes, del_node),
                    !.lists[l].size = list.size - 1],
                ns[del_node].data)

list_concat_keeps_tail(s, A, B) ==
    LET a == s.lists[A]
        b == s.lists[B]
    IN  IF a.size = 0 \/ b.size = 0 THEN Stop(s)
        ELSE
            Ret([s EXCEPT
                    !.nodes = [s.nodes EXCEPT ![a.tail].next = b.head,
                                              ![b.head].prev = a.tail],
                    !.lists[A].size = a.size + b.size,
                    !.lists[B].head = NULL,
                    !.lists[B].tail = NULL,
                    !.lists[B].size = 0],
                b.head)

list_concat(s, A, B) ==
    LET a == s.lists[A]
        b == s.lists[B]
    IN  IF a.size = 0 \/ b.size = 0 THEN Stop(s)
        ELSE
            Ret([s EXCEPT
                    !.nodes = [s.nodes EXCEPT ![a.tail].next = b.head,
                                              ![b.head].prev = a.tail],
                    !.lists[A].tail = b.tail,
                    !.lists[A].size = a.size + b.size,
                    !.lists[B].head = NULL,
                    !.lists[B].tail = NULL,
                    !.lists[B].size = 0],
                b.head)

\* the loop that undoes the pushes of a failed list_copy
RECURSIVE list_copy_revert(_, _, _)
list_copy_revert(s, A, old_tail) ==
    LET peek == list_peek_tail(s, A)
        pop == list_pop_tail(s, A)
    IN  IF ~ peek.ok THEN Stop(s)
        ELSE IF peek.ret = old_tail THEN Ret(s, NULL)
        ELSE IF ~ pop.ok THEN Stop(pop.s)
        ELSE list_copy_revert(Destroy(pop.s, A, pop.ret), A, old_tail)

\* the loop over B from curr on; malloc serves the next `served` pushes
RECURSIVE list_copy_loop(_, _, _, _, _, _, _)
list_copy_loop(s, A, B, curr, served, ret_node, old_tail) ==
    IF curr = NULL THEN Ret(s, ret_node)
    ELSE
        LET new_node == IF served = 0 THEN NULL ELSE malloc_node(s.nodes)
            push == list_push_tail(s, A, s.nodes[curr].data, new_node)
        IN  IF ~ push.ok THEN Stop(push.s)
            ELSE IF push.ret = NULL THEN list_copy_revert(s, A, old_tail)
            ELSE list_copy_loop(push.s, A, B, s.nodes[curr].next,
                     IF served = 0 THEN 0 ELSE served - 1,
                     IF curr = s.lists[B].head THEN push.ret ELSE ret_node,
                     old_tail)

list_copy(s, A, B, served) ==
    IF s.lists[B].size = 0 THEN Stop(s)
    ELSE list_copy_loop(s, A, B, s.lists[B].head, served, NULL,
                        s.lists[A].tail)

\* ------------------------------------------------------------ list actions

\* the address of the struct list of a list
ListHandle(l) == IF l = "A" THEN MaxNodes + 2 ELSE MaxNodes + 3

ListStep(op, args, r) ==
    /\ lists' = r.s.lists
    /\ nodes' = r.s.nodes
    /\ destroyed' = r.s.destroyed
    /\ stopped' = ~ r.ok
    /\ lcall' = Call(op, args, r.ret)
    /\ UNCHANGED vars

DoListCreate ==
    /\ ~ stopped
    /\ \E l \in ListIds, destroy \in BOOLEAN, served \in BOOLEAN :
          /\ ~ lists[l].made
          /\ LET r == list_create(LState, l, destroy, served)
             IN  ListStep("list_create", <<ListHandle(l)>>,
                          [r EXCEPT !.ret = IF served THEN ListHandle(l)
                                            ELSE NULL])

DoListDestroy ==
    /\ ~ stopped
    /\ \E l \in ListIds :
          /\ lists[l].made
          /\ ListStep("list_destroy", <<ListHandle(l)>>,
                      list_destroy(LState, l))

DoListInsertPos ==
    /\ ~ stopped
    /\ \E l \in ListIds, data \in ListData :
          /\ lists[l].made
          /\ \E pos \in 0 .. lists[l].size,
                new_node \in {NULL, malloc_node(nodes)} :
                ListStep("list_insert_pos", <<ListHandle(l), pos, data>>,
                         list_insert_pos(LState, l, pos, data, new_node))

DoListRemovePos ==
    /\ ~ stopped
    /\ \E l \in ListIds :
          /\ lists[l].made
          /\ \E pos \in 0 .. lists[l].size - 1 :
                ListStep("list_remove_pos", <<ListHandle(l), pos>>,
                         list_remove_pos(LState, l, pos))

DoListAccessPos ==
    /\ ~ stopped
    /\ \E l \in ListIds :
          /\ lists[l].made
          /\ \E pos \in (-1) * lists[l].size .. lists[l].size - 1 :
                ListStep("list_access_pos", <<ListHandle(l), pos>>,
                         list_access_pos(LState, l, pos))

\* the node is a node of the list; the methods that take no node get NULL
DoListRemoveNode ==
    /\ ~ stopped
    /\ \E l \in ListIds, method \in {0, 1, 2} :
          /\ lists[l].made
          /\ lists[l].size > 0
          /\ \E node \in IF method = 0 THEN Range(NodesOf(LState, l))
                         ELSE {NULL} :
                ListStep("list_remove_node", <<ListHandle(l), node, method>>,
                         list_remove_node(LState, l, node, method))

DoListConcat ==
    /\ ~ stopped
    /\ \E A \in ListIds, B \in ListIds :
          /\ A # B
          /\ lists[A].made /\ lists[B].made
          /\ lists[A].size # 0 /\ lists[B].size # 0
          /\ ListStep("list_concat", <<ListHandle(A), ListHandle(B)>>,
                      list_concat(LState, A, B))

\* malloc serves the first `served` pushes of the copy and fails the next
DoListCopy ==
    /\ ~ stopped
    /\ \E A \in ListIds, B \in ListIds :
          /\ A # B
          /\ lists[A].made /\ lists[B].made
          /\ lists[B].size # 0
          /\ \E served \in 0 .. lists[B].size :
                ListStep("list_copy", <<ListHandle(A), ListHandle(B), served>>,
                         list_copy(LState, A, B, served))

ListNext ==
    \/ DoListCreate
    \/ DoListDestroy
    \/ DoListInsertPos
    \/ DoListRemovePos
    \/ DoListAccessPos
    \/ DoListRemoveNode
    \/ DoListConcat
    \/ DoListCopy

\* the list program alone, the pool never set up
ListSpec == Init /\ [][ListNext]_<<vars, lvars>>

\* ------------------------------------------------------------------- chain
RECURSIVE ChainFrom(_, _, _)
ChainFrom(b, a, fuel) ==
    IF a = NULL \/ fuel = 0 THEN <<>>
    ELSE <<a>> \o ChainFrom(b, b[a].next, fuel - 1)

\* the blocks visited from manager.head by next links, in that order
Chain == ChainFrom(blocks, manager.head, Cardinality(DOMAIN blocks))

ChainSet == {Chain[i] : i \in 1..Len(Chain)}

\* free blocks of the chain that can hold n bytes
Candidates(n) == {a \in ChainSet : blocks[a].available /\ ULe(n, blocks[a].size)}

Lowest(S) == CHOOSE a \in S : \A x \in S : a <= x

\* the byte size a pmalloc or pcalloc call asked for
Requested(call) ==
    IF call.op = "pmalloc" THEN call.args[1]
    ELSE MulSizeT(call.args[1], call.args[2])

Allocating(call) == call.op \in {"pmalloc", "pcalloc"}

\* headers of absorbed blocks that lie inside the region of block a
Absorbed(a) ==
    {x \in DOMAIN blocks : a < x /\ x < a + SIZEOF_BLOCK + blocks[a].size}

\* only requests below 2^63 bytes were served in this lifecycle
Ordinary == ~ huge

\* ------------------------------------------------------------------ claims

\* C1: on an active pool every non-NULL pointer returned by pmalloc or
\* pcalloc is a multiple of 8 and lies exactly SIZEOF_BLOCK bytes above the
\* header of the block made for it (the new tail, in use, of the requested
\* size); the same holds of every pointer the caller still holds.
C1_ReturnedPointerAligned ==
    /\ (Allocating(last) /\ last.ret # NULL) =>
          /\ last.ret % (ALIGN + 1) = 0
          /\ manager.tail = last.ret - SIZEOF_BLOCK
          /\ blocks[manager.tail].size = Requested(last)
          /\ ~ blocks[manager.tail].available
    /\ \A p \in live :
          /\ p % (ALIGN + 1) = 0
          /\ p - SIZEOF_BLOCK \in DOMAIN blocks
          /\ ~ blocks[p - SIZEOF_BLOCK].available

\* a pointer was returned for a block placed after rounding top up
C1_Witness ==
    /\ Allocating(last) /\ last.ret # NULL
    /\ blocks[last.ret - SIZEOF_BLOCK].top_gap > 0
    /\ Cardinality(live) >= 2

\* C2: the payload byte ranges [p, p + size) of any two blocks in use at
\* the same time are disjoint.  A size of 2^63 or more (written negative)
\* spans every other payload.
C2_LivePayloadsDisjoint ==
    \A p, q \in live :
        p # q =>
           LET sp == blocks[p - SIZEOF_BLOCK].size
               sq == blocks[q - SIZEOF_BLOCK].size
           IN  /\ sp >= 0
               /\ sq >= 0
               /\ (p + sp <= q \/ q + sq <= p)

\* C3: for every block of the chain, free or in use, the block.size bytes
\* above its header lie inside the arena [pool, pool + capacity) and end at
\* or before the header of the next block; stated here for pools that only
\* served requests below 2^63 bytes.
C3_BlocksInsideArena ==
    (manager.pool # NULL /\ Ordinary) =>
       \A a \in ChainSet :
          /\ a >= manager.pool
          /\ blocks[a].size >= 0
          /\ a + SIZEOF_BLOCK + blocks[a].size <= manager.pool + capacity
          /\ blocks[a].next # NULL =>
                a + SIZEOF_BLOCK + blocks[a].size <= blocks[a].next

\* C4: pmalloc(size) with size > 0 returns NULL only when no free block of
\* the chain has block.size >= size and the untouched part of the arena
\* cannot hold header + size + alignment padding (counted at its largest,
\* ALIGN bytes, as the capacity test of the code counts it).
C4_NullOnlyWhenExhausted ==
    [][ (last'.op = "pmalloc" /\ last'.args[1] > 0 /\ last'.ret = NULL
            /\ Ordinary) =>
           /\ Candidates(last'.args[1]) = {}
           /\ SIZEOF_BLOCK + last'.args[1] + ALIGN > manager.available
      ]_vars

\* C5: pmalloc(size) with size <= max_free and a free block with
\* block.size >= size in the chain returns the payload pointer of the
\* lowest-address such block and marks that block in use.
C5_FirstFit ==
    [][ (last'.op = "pmalloc" /\ last'.args[1] > 0 /\ Ordinary
            /\ ULe(last'.args[1], manager.max_free)
            /\ Candidates(last'.args[1]) # {}) =>
           LET a == Lowest(Candidates(last'.args[1]))
           IN  /\ last'.ret = a + SIZEOF_BLOCK
               /\ ~ blocks'[a].available
      ]_vars

\* the pool after mempool_init(128); a = pmalloc(16); b = pmalloc(16);
\* pfree(a)
C6_Scenario ==
    /\ manager.pool # NULL /\ capacity = 128
    /\ manager.head = manager.pool
    /\ manager.tail = manager.pool + 48
    /\ DOMAIN blocks = {manager.head, manager.tail}
    /\ blocks[manager.head].size = 16 /\ blocks[manager.head].available
    /\ blocks[manager.tail].size = 16 /\ ~ blocks[manager.tail].available
    /\ manager.top = manager.pool + 96
    /\ manager.available = 32

\* C6: in that pool c = pmalloc(16) succeeds, returns a's address (the
\* freed block is in use again) and leaves top and available as they were.
C6_ExactFitReused ==
    [][ (C6_Scenario /\ last'.op = "pmalloc" /\ last'.args = <<16>>) =>
           /\ last'.ret = manager.head + SIZEOF_BLOCK
           /\ ~ blocks'[manager.head].available
           /\ manager'.top = manager.top
           /\ manager'.available = manager.available
      ]_vars

\* C7: after three address-adjacent blocks were freed (in any order) and
\* merged into one free block, pmalloc of that block's size succeeds and
\* returns a pointer inside the region the three blocks occupied.
C7_CoalescedRegionReusable ==
    [][ \A a \in ChainSet :
           (/\ Ordinary
            /\ blocks[a].available
            /\ Cardinality(Absorbed(a)) = 2
            /\ last'.op = "pmalloc"
            /\ last'.args[1] = blocks[a].size) =>
               /\ last'.ret # NULL
               /\ a + SIZEOF_BLOCK <= last'.ret
               /\ last'.ret < a + SIZEOF_BLOCK + blocks[a].size
      ]_vars

C9_ExhaustionBoundary ==
    [][ (last'.op = "pmalloc" /\ manager.pool # NULL /\ manager.max_free = 0
            /\ last'.args[1] # 0) =>
           LET n == last'.args[1]
           IN  /\ (n < 0 \/ n + SIZEOF_BLOCK > capacity) => last'.ret = NULL
               /\ (last'.ret # NULL
                     /\ \A a \in DOMAIN blocks' : blocks'[a].size = n) =>
                     /\ n > 0
                     /\ Cardinality(DOMAIN blocks') * (SIZEOF_BLOCK + n)
                           <= capacity
               /\ last'.ret = NULL =>
                     /\ blocks' = blocks
                     /\ \A a \in DOMAIN blocks : ~ blocks[a].available
      ]_vars

\* C10: on an active pool max_free is at least the size of every free
\* block: of the chain from head and of every other header of the arena.
C10_MaxFreeCoversFreeBlocks ==
    manager.pool # NULL =>
       \A a \in DOMAIN blocks \cup ChainSet :
          blocks[a].available => ULe(blocks[a].size, manager.max_free)

\* two free blocks of different sizes, the larger made by a merge, and
\* max_free equal to the larger size
C10_Witness ==
    \E a, c \in ChainSet :
       /\ blocks[a].available /\ blocks[c].available
       /\ blocks[a].size < blocks[c].size
       /\ Absorbed(c) # {}
       /\ manager.max_free = blocks[c].size

\* C11: the chain walked from head by next links is strictly ascending by
\* address, head is its first (lowest) block and tail its last (highest)
\* block, and head and tail are NULL exactly when the chain has no block.
C11_ChainAscendingHeadToTail ==
    Ordinary =>
       /\ \A i \in 1..(Len(Chain) - 1) : Chain[i] < Chain[i + 1]
       /\ (manager.head = NULL) = (manager.tail = NULL)
       /\ (manager.head = NULL) = (DOMAIN blocks = {})
       /\ manager.head # NULL =>
             /\ \A a \in ChainSet : manager.head <= a /\ a <= manager.tail
             /\ manager.tail = Chain[Len(Chain)]

\* the blocks visited from manager.tail by prev links, in that order
RECURSIVE ChainBackFrom(_, _, _)
ChainBackFrom(b, a, fuel) ==
    IF a = NULL \/ fuel = 0 THEN <<>>
    ELSE <<a>> \o ChainBackFrom(b, b[a].prev, fuel - 1)

ChainBack == ChainBackFrom(blocks, manager.tail, Cardinality(DOMAIN blocks))

ChainBackSet == {ChainBack[i] : i \in 1..Len(ChainBack)}

\* headers of the blocks that exist: in use (the caller holds the payload
\* pointer) or free; the cleared header of an absorbed block is neither
Existing == {a \in DOMAIN blocks : blocks[a].available \/ a + SIZEOF_BLOCK \in live}

\* C12: there is one chain over all blocks: every block that was allocated
\* and not absorbed by a merge, free or in use, is reached from head by next
\* links and from tail by prev links; this includes a block allocated after
\* a coalescing pfree.
C12_OneChainOverAllBlocks ==
    Ordinary =>
       /\ Existing \subseteq ChainSet
       /\ Existing \subseteq ChainBackSet

\* the bytes of the header at address a
HeaderRange(a) == a .. (a + SIZEOF_BLOCK - 1)

\* the payload bytes of the block behind pointer p
PayloadRange(p) == p .. (p + blocks[p - SIZEOF_BLOCK].size - 1)

\* C13: a pmalloc, pcalloc or pfree call made for another block modifies no
\* payload byte of a block that is in use before and after the call: the
\* headers the call writes and the bytes pcalloc zero-fills lie outside the
\* payload [p, p + size) of every such block.  (A payload of 2^63 bytes or
\* more, size written negative, contains every header of the arena.)
C13_LivePayloadUntouched ==
    [][ LET written == {a \in DOMAIN blocks' :
                           a \notin DOMAIN blocks \/ blocks'[a] # blocks[a]}
            zeroed == IF last'.op = "pcalloc" /\ last'.ret # NULL
                      THEN memset_range(last'.ret, Requested(last'))
                      ELSE {}
        IN  \A p \in live \cap live' :
               /\ \A a \in written :
                     /\ blocks[p - SIZEOF_BLOCK].size >= 0
                     /\ HeaderRange(a) \cap PayloadRange(p) = {}
               /\ zeroed \cap PayloadRange(p) = {}
      ]_vars

\* C14: mempool_init(size) with size = 0 or with a pool already active
\* returns false and leaves the manager (pool, top, available, head, tail,
\* max_free), every block header, the caller's pointers and the buffer as
\* they were.
C14_InitRejectedChangesNothing ==
    [][ (last'.op = "mempool_init"
            /\ (last'.args[1] = 0 \/ manager.pool # NULL)) =>
           /\ last'.ret = 0
           /\ manager' = manager
           /\ blocks' = blocks
           /\ capacity' = capacity
           /\ heap' = heap
           /\ live' = live
      ]_vars

\* mempool_init with a non-zero size was rejected on a pool that holds a
\* block in use and a free block
C14_Witness ==
    /\ last.op = "mempool_init" /\ last.args[1] # 0 /\ last.ret = 0
    /\ manager.pool # NULL
    /\ live # {}
    /\ manager.max_free > 0
    /\ manager.top # manager.pool

\* C15: every mempool_init that returns true leaves a buffer of exactly the
\* requested capacity, top = pool = start of that buffer, available =
\* capacity, head = tail = NULL, max_free = 0 and no block, also when an
\* earlier pool was initialised, used and torn down before.
C15_InitEstablishesEmptyPool ==
    [][ (last'.op = "mempool_init" /\ last'.ret = 1) =>
           /\ manager'.pool # NULL
           /\ heap' = {manager'.pool}
           /\ capacity' = last'.args[1]
           /\ manager' = [head |-> NULL, tail |-> NULL, max_free |-> 0,
                          available |-> last'.args[1],
                          pool |-> manager'.pool, top |-> manager'.pool]
           /\ blocks' = NoBlocks
           /\ live' = {}
      ]_vars

\* mempool_init just succeeded with the larger capacity
C15_Witness ==
    /\ last.op = "mempool_init" /\ last.ret = 1
    /\ last.args[1] = MaxCapacity
    /\ manager.available = MaxCapacity

\* C16: after a mempool_init whose malloc failed (non-zero size, no pool
\* active, result false) the manager is uninitialised: pool = NULL, top =
\* NULL, available = 0, head = tail = NULL, no buffer is held, and a
\* mempool_init that succeeds is still possible.
C16_FailedMallocLeavesUninitialised ==
    (last.op = "mempool_init" /\ last.args[1] # 0 /\ last.ret = 0
        /\ manager.pool = NULL) =>
       /\ manager = manager_init
       /\ blocks = NoBlocks
       /\ heap = {}
       /\ capacity = 0
       /\ ENABLED (mempool_init(last.args[1]) /\ last'.ret = 1)

\* malloc failed for a request of the larger capacity
C16_Witness ==
    /\ last = Call("mempool_init", <<MaxCapacity>>, 0)
    /\ manager.pool = NULL
    /\ ~ fault

\* the buffer of the active pool, and nothing else, is held from malloc
HeapHoldsPool == heap = IF manager.pool = NULL THEN {} ELSE {manager.pool}

\* C17: mempool_free changes nothing when no pool is active; on an active
\* pool it passes the buffer, which is held at that moment, to free once and
\* resets head, tail, max_free, available, pool and top, whatever blocks
\* the pool holds; a second call finds pool = NULL and releases nothing.
C17_TeardownReleasesOnce ==
    [][ /\ HeapHoldsPool /\ HeapHoldsPool'
        /\ last'.op = "mempool_free" =>
              IF manager.pool = NULL
              THEN /\ manager' = manager
                   /\ heap' = heap
                   /\ blocks' = blocks
              ELSE /\ manager.pool \in heap
                   /\ heap' = heap \ {manager.pool}
                   /\ manager' = manager_init
                   /\ blocks' = NoBlocks
                   /\ live' = {}
      ]_vars

\* mempool_free was called and no pool is active
C17_Witness ==
    /\ last.op = "mempool_free"
    /\ manager = manager_init
    /\ heap = {}
    /\ blocks = NoBlocks

\* the product n * size of two size_t values does not fit in size_t; for
\* the values this module writes (below 2^31, or 2^64 - k with k below
\* 2^31, written -k) that is: one factor is 2^63 or more and the other is
\* 2 or more
ProductOverflows(n, size) ==
    \/ n < 0 /\ (size < 0 \/ size > 1)
    \/ size < 0 /\ n > 1

\* C18: pcalloc(n, size) whose product n * size does not fit in size_t
\* returns NULL and allocates nothing: no header is written and the manager
\* is unchanged.
C18_OverflowingProductRejected ==
    [][ (last'.op \in {"pcalloc", "pcalloc_fault"}
            /\ ProductOverflows(last'.args[1], last'.args[2])) =>
           /\ last'.op = "pcalloc"
           /\ last'.ret = NULL
           /\ manager' = manager
           /\ blocks' = blocks
      ]_vars

\* C19: pfree(NULL) changes no manager field and no block header, and the
\* caller holds the same pointers afterwards.
C19_FreeNullIsNoOp ==
    [][ (last'.op = "pfree" /\ last'.args[1] = NULL) =>
           /\ manager' = manager
           /\ blocks' = blocks
           /\ live' = live
           /\ capacity' = capacity
           /\ heap' = heap
      ]_vars

\* pfree(NULL) was called on a pool whose tail block is free and follows a
\* block in use
C19_Witness ==
    /\ last = Call("pfree", <<NULL>>, 0)
    /\ Len(Chain) >= 2
    /\ blocks[Chain[Len(Chain)]].available
    /\ ~ blocks[Chain[Len(Chain) - 1]].available
    /\ live # {}

C21_FailedGrowKeepsOldBlock ==
    [][ (last'.op = "prealloc" /\ last'.args[1] # NULL
            /\ last'.args[2] # 0
            /\ prealloc_grows(blocks, last'.args[1], last'.args[2])
            /\ last'.ret = NULL) =>
           /\ last'.args[1] \in live'
           /\ live' = live
           /\ blocks' = blocks
           /\ ~ blocks'[last'.args[1] - SIZEOF_BLOCK].available
           /\ manager' = manager
      ]_vars

\* a prealloc that had to grow a block failed; the block is still in use
\* and sits between two other blocks of the chain
C21_Witness ==
    /\ last.op = "prealloc" /\ last.args[1] # NULL /\ last.args[2] # 0
    /\ last.ret = NULL
    /\ last.args[1] \in live
    /\ prealloc_grows(blocks, last.args[1], last.args[2])
    /\ blocks[last.args[1] - SIZEOF_BLOCK].prev # NULL
    /\ blocks[last.args[1] - SIZEOF_BLOCK].next # NULL

\* C25: pfree of a block B whose chain predecessor P and chain successor S
\* are both free leaves one free block at P's header: B and S are off the
\* chain, which has two blocks fewer, P is followed by what followed S, and
\* P's size holds the three sizes, both absorbed headers and the gaps
\* before B and before S, plus the gap that followed S.
C25_ThreeWayMerge ==
    [][ (last'.op = "pfree" /\ last'.args[1] # NULL) =>
           LET B == last'.args[1] - SIZEOF_BLOCK
               P == blocks[B].prev
               S == blocks[B].next
           IN  (/\ B \in ChainSet
                /\ P # NULL /\ S # NULL
                /\ blocks[P].available /\ blocks[S].available) =>
                  LET sum == blocks[P].size + blocks[B].size + blocks[S].size
                               + 2 * SIZEOF_BLOCK
                               + blocks[B].top_gap + blocks[S].top_gap
                      N == blocks[S].next
                  IN  /\ blocks'[P].available
                      /\ blocks'[P].next = N
                      /\ N # NULL => /\ blocks'[N].prev = P
                                     /\ blocks'[P].size
                                           = sum + blocks[N].top_gap
                      /\ blocks'[P].size - sum >= 0
                      /\ Len(Chain') = Len(Chain) - 2
                      /\ B \notin ChainSet' /\ S \notin ChainSet'
                      /\ ~ blocks'[B].available /\ ~ blocks'[S].available
                      /\ \A i \in 1..(Len(Chain') - 1) :
                            Chain'[i] = P => ~ blocks'[Chain'[i + 1]].available
      ]_vars

\* a pfree merged the block with a free predecessor and a free successor;
\* a block in use follows the merged block
C25_Witness ==
    /\ last.op = "pfree" /\ last.args[1] # NULL
    /\ \E a \in ChainSet :
          /\ blocks[a].available
          /\ last.args[1] - SIZEOF_BLOCK \in Absorbed(a)
          /\ Cardinality(Absorbed(a)) = 2
          /\ \A x \in Absorbed(a) : x >= last.args[1] - SIZEOF_BLOCK
          /\ blocks[a].next # NULL

\* the block that survives pfree(ptr): the free predecessor if there is
\* one, else the block of ptr itself
Survivor(ptr) ==
    LET B == ptr - SIZEOF_BLOCK
        P == blocks[B].prev
    IN  IF P # NULL /\ blocks[P].available THEN P ELSE B

\* pfree(ptr) absorbs the tail of the chain: the free successor of the
\* block is the tail, or the block is the tail and its predecessor is free
AbsorbsTail(ptr) ==
    LET B == ptr - SIZEOF_BLOCK
        P == blocks[B].prev
        S == blocks[B].next
    IN  /\ B \in ChainSet
        /\ \/ S # NULL /\ blocks[S].available /\ S = manager.tail
           \/ P # NULL /\ blocks[P].available /\ B = manager.tail

\* C26: when pfree absorbs a free block that was the tail of the chain,
\* manager.tail afterwards points to the surviving block and that block's
\* next is NULL.
C26_TailMergeMovesTail ==
    [][ (last'.op = "pfree" /\ last'.args[1] # NULL /\ Ordinary
            /\ AbsorbsTail(last'.args[1])) =>
           /\ manager'.tail = Survivor(last'.args[1])
           /\ blocks'[Survivor(last'.args[1])].next = NULL
      ]_vars

\* C27: on an active pool available is the number of bytes between top and
\* the end of the arena, pool + capacity - top, after every operation;
\* stated here for pools that only served requests below 2^63 bytes.
C27_AvailableIsRoomAboveTop ==
    (manager.pool # NULL /\ Ordinary) =>
       manager.available = manager.pool + capacity - manager.top

\* C28: when pfree absorbs a free successor S into a block B (the block of
\* the pointer and its free successor, or its free predecessor and the
\* block itself), B's size afterwards is exactly B.size + S.size +
\* SIZEOF_BLOCK + S.top_gap, also when S was the tail: the padding past S
\* is not added to the size.
C28_MergedSizeIsSumOfParts ==
    [][ (last'.op = "pfree" /\ last'.args[1] # NULL /\ Ordinary
            /\ last'.args[1] - SIZEOF_BLOCK \in ChainSet) =>
           LET X == last'.args[1] - SIZEOF_BLOCK
               P == blocks[X].prev
               N == blocks[X].next
               prevFree == P # NULL /\ blocks[P].available
               nextFree == N # NULL /\ blocks[N].available
           IN  /\ (nextFree /\ ~ prevFree) =>
                     blocks'[X].size = blocks[X].size + blocks[N].size
                                         + SIZEOF_BLOCK + blocks[N].top_gap
               /\ (prevFree /\ ~ nextFree) =>
                     blocks'[P].size = blocks[P].size + blocks[X].size
                                         + SIZEOF_BLOCK + blocks[X].top_gap
      ]_vars

LNext == [lists |-> lists', nodes |-> nodes', destroyed |-> destroyed']

\* the list behind a struct list pointer
ListOf(h) == CHOOSE l \in ListIds : ListHandle(l) = h

\* malloc fails before every element of B has its copy: it serves fewer
\* pushes than B has elements, or the heap has fewer free nodes than that
CopyRunsShort(B, served) ==
    \/ served < lists[B].size
    \/ Cardinality(NodeAddrs \ DOMAIN nodes) < lists[B].size

\* C22: when a node allocation fails during list_copy(A, B), the call
\* returns NULL and A is as it was before the call: the same nodes with the
\* same links and data in the same order, the same size, head and tail, and
\* nothing but the data of copies handed to the destroy function.
C22_FailedCopyRevertsA ==
    [][ (lcall'.op = "list_copy"
            /\ CopyRunsShort(ListOf(lcall'.args[2]), lcall'.args[3])) =>
           LET A == ListOf(lcall'.args[1])
               B == ListOf(lcall'.args[2])
           IN  /\ ~ stopped'
               /\ lcall'.ret = NULL
               /\ lists'[A] = lists[A]
               /\ NodesOf(LNext, A) = NodesOf(LState, A)
               /\ \A n \in Range(NodesOf(LState, A)) :
                     n \in DOMAIN nodes' /\ nodes'[n] = nodes[n]
               /\ destroyed' \ destroyed \subseteq Range(DataOf(LState, B))
      ]_lvars

\* C23: list_remove_node, given a node of the list, removes that node and
\* returns its datum, whether the node is the head, the tail, the only node
\* or a node in between; afterwards the node is gone from the list, size
\* is one less, and head and tail are the first and last remaining nodes
\* (NULL when none remains).
C23_RemoveNodeRemovesGivenNode ==
    [][ (lcall'.op = "list_remove_node" /\ lcall'.args[2] # NULL) =>
           LET l == ListOf(lcall'.args[1])
               node == lcall'.args[2]
               before == NodesOf(LState, l)
               after == NodesOf(LNext, l)
           IN  /\ ~ stopped'
               /\ lcall'.ret = nodes[node].data
               /\ after = SelectSeq(before, LAMBDA x : x # node)
               /\ node \notin DOMAIN nodes'
               /\ lists'[l].size = lists[l].size - 1
               /\ lists'[l].head = IF after = <<>> THEN NULL ELSE after[1]
               /\ lists'[l].tail =
                     IF after = <<>> THEN NULL ELSE after[Len(after)]
      ]_lvars

\* C24: list_concat(A, B) on two non-empty lists leaves in A the nodes of A
\* followed by the nodes of B, in their order and with their data, A.size
\* the sum of the two sizes and A.tail the former tail of B; B is empty
\* (head and tail NULL, size 0) and the call returns the former head of B.
C24_ConcatAppendsB ==
    [][ lcall'.op = "list_concat" =>
           LET A == ListOf(lcall'.args[1])
               B == ListOf(lcall'.args[2])
           IN  /\ ~ stopped'
               /\ NodesOf(LNext, A) = NodesOf(LState, A) \o NodesOf(LState, B)
               /\ DataOf(LNext, A) = DataOf(LState, A) \o DataOf(LState, B)
               /\ lists'[A].size = lists[A].size + lists[B].size
               /\ lists'[A].tail = lists[B].tail
               /\ nodes'[lists'[A].tail].next = NULL
               /\ lists'[B].head = NULL
               /\ lists'[B].tail = NULL
               /\ lists'[B].size = 0
               /\ lcall'.ret = lists[B].head
               /\ lcall'.ret = NodesOf(LNext, A)[lists[A].size + 1]
      ]_lvars

\* list_concat has returned and A holds as many nodes as the heap serves,
\* with data that differ
C24_Witness ==
    /\ lcall.op = "list_concat"
    /\ ~ stopped
    /\ lists[ListOf(lcall.args[1])].size = MaxNodes
    /\ lists[ListOf(lcall.args[2])].size = 0
    /\ Cardinality(Range(DataOf(LState, ListOf(lcall.args[1])))) > 1

\* ------------------------------------------------------- pool claims, part 2

\* C31: on an active pool whose buffer starts at a multiple of 8, top is a
\* multiple of 8 after every operation.
C31_TopAligned ==
    (manager.pool # NULL /\ manager.pool % (ALIGN + 1) = 0 /\ Ordinary) =>
       manager.top % (ALIGN + 1) = 0

\* C32: between mempool_init and mempool_free max_free never decreases:
\* pmalloc and pcalloc leave it as it is, and pfree of a block leaves it at
\* least as large as before and at least as large as the size of the block
\* it leaves free, merged or not (sizes compared as size_t).
C32_MaxFreeNeverDecreases ==
    [][ /\ (last'.op \in {"pmalloc", "pcalloc", "pcalloc_fault"}) =>
              manager'.max_free = manager.max_free
        /\ (last'.op = "pfree") =>
              /\ ULe(manager.max_free, manager'.max_free)
              /\ last'.args[1] # NULL =>
                    /\ blocks'[Survivor(last'.args[1])].available
                    /\ ULe(blocks'[Survivor(last'.args[1])].size,
                           manager'.max_free)
      ]_vars

\* pfree has merged a block into a free neighbour while max_free was
\* already above zero, and max_free is the size of the merged block
C32_Witness ==
    /\ last.op = "pfree" /\ last.args[1] # NULL
    /\ \E a \in DOMAIN blocks :
          /\ blocks[a].available
          /\ Absorbed(a) # {}
          /\ manager.max_free = blocks[a].size
    /\ \E c \in DOMAIN blocks :
          /\ blocks[c].available
          /\ ULt(blocks[c].size, manager.max_free)

\* free blocks a and c lie next to each other in the arena: no block that
\* exists has its header between the two headers
Neighbours(a, c) ==
    /\ a < c
    /\ \A x \in Existing : ~ (a < x /\ x < c)

\* C33: after every pfree no free block of the pool has a free block as
\* its neighbour by address, below or above; this holds whatever was
\* allocated and freed before, allocations after a merge of the tail
\* included.
C33_NoAdjacentFreeBlocks ==
    (last.op = "pfree" /\ Ordinary) =>
       \A a, c \in Existing :
          (blocks[a].available /\ blocks[c].available) => ~ Neighbours(a, c)

\* C34: after every operation the chain tiles the claimed part of the
\* arena: a block with a successor ends top_gap bytes (the successor's)
\* before the successor's header, and the last block of the chain ends at
\* top.
C34_ChainTilesArena ==
    (manager.pool # NULL /\ Ordinary) =>
       \A b \in ChainSet :
          IF blocks[b].next # NULL
          THEN b + SIZEOF_BLOCK + blocks[b].size
                  + blocks[blocks[b].next].top_gap = blocks[b].next
          ELSE b + SIZEOF_BLOCK + blocks[b].size = manager.top

FreeBlocks == {a \in DOMAIN blocks : blocks[a].available}

\* C36: after every operation max_free is exactly the size of the largest
\* free block of the pool, and 0 exactly when no block is free.
C36_MaxFreeIsLargestFreeBlock ==
    manager.pool # NULL =>
       /\ (manager.max_free = 0) = (FreeBlocks = {})
       /\ FreeBlocks # {} =>
             /\ \E a \in FreeBlocks : blocks[a].size = manager.max_free
             /\ \A a \in FreeBlocks : ULe(blocks[a].size, manager.max_free)

\* a header as pfree leaves it after the block was absorbed
ClearedHeader ==
    [prev |-> NULL, next |-> NULL, size |-> 0, available |-> FALSE,
     top_gap |-> 0]

\* C37: every pfree of a pointer obtained from the pool and not yet freed
\* terminates: the merge loop comes to its end, and it absorbs at most two
\* blocks, each once: the free successor of the block, and the block
\* itself into its free predecessor.
C37_PfreeTerminates ==
    [][ (last'.op = "pfree" /\ last'.args[1] # NULL) =>
           LET B == last'.args[1] - SIZEOF_BLOCK
               S == blocks[B].next
               absorbed == {a \in DOMAIN blocks :
                              /\ blocks[a] # ClearedHeader
                              /\ blocks'[a] = ClearedHeader}
           IN  /\ pfree(manager, blocks, last'.args[1]).done
               /\ Cardinality(absorbed) <= 2
               /\ absorbed \subseteq {S, B}
               /\ S \in absorbed => blocks[S].available
               /\ B \in absorbed =>
                     /\ blocks[B].prev # NULL
                     /\ blocks[blocks[B].prev].available
                     /\ blocks'[blocks[B].prev].available
      ]_vars

\* pfree has absorbed two blocks into one in a pool of four blocks: the
\* free block has two cleared headers inside it and a block in use after it
C37_Witness ==
    /\ last.op = "pfree" /\ last.args[1] # NULL
    /\ Cardinality(DOMAIN blocks) = 4
    /\ \E a \in DOMAIN blocks :
          /\ blocks[a].available
          /\ Cardinality(Absorbed(a)) = 2
          /\ last.args[1] - SIZEOF_BLOCK \in Absorbed(a)
          /\ blocks[last.args[1] - SIZEOF_BLOCK] = ClearedHeader
          /\ blocks[a].next # NULL

\* the distance from address a to the next multiple of 8, 0 on a multiple
ToNextMultiple(a) == AlignUp(a) - a

\* C38: when pfree absorbs the tail block, the padding added to top (and,
\* past the parts of the two blocks, to the size of the surviving block) is
\* the distance from the old top to the next multiple of 8: a value in
\* 0..7, and 0 when the old top is a multiple of 8 already; top stays
\* inside the arena.
C38_TailGapRoundsTopUp ==
    [][ (last'.op = "pfree" /\ last'.args[1] # NULL /\ Ordinary
            /\ AbsorbsTail(last'.args[1])) =>
           LET gap == manager'.top - manager.top
           IN  /\ gap = ToNextMultiple(manager.top)
               /\ gap \in 0 .. ALIGN
               /\ manager'.top <= manager.pool + capacity
      ]_vars

\* ------------------------------------------------------ list claims, part 2

\* C39: on a list of size n, list_access_pos with a negative position pos,
\* -n <= pos <= -1, returns the datum of the node that list_access_pos
\* returns for n + pos: -1 is the tail, -n the head, and each position in
\* between the matching node counted from the tail.
C39_NegativePositionsCountFromTail ==
    [][ (lcall'.op = "list_access_pos" /\ lcall'.args[2] < 0) =>
           LET l == ListOf(lcall'.args[1])
               pos == lcall'.args[2]
               n == lists[l].size
           IN  /\ ~ stopped'
               /\ lcall'.ret = list_access_pos(LState, l, n + pos).ret
               /\ lcall'.ret = DataOf(LState, l)[n + pos + 1]
      ]_lvars

====
